---- MODULE Spec2Model ----
(***************************************************************************)
(* Model of the ErrorEnum derive macro (src/src/lib.rs) and of the From    *)
(* impls it emits (exercised by src/tests/lib.rs).                         *)
(*                                                                         *)
(* A declaration is the parsed DeriveInput: its ident, the kind of its     *)
(* data, and (for an enum) its variants in declaration order.  A token     *)
(* stream is a sequence of tokens (strings); to_string renders it.  The    *)
(* macro is modelled step by step: validation, catch-all lookup, one loop  *)
(* iteration per variant, and the final quote!.  The emitted impls are     *)
(* records that Convert then runs on values of their source type.          *)
(***************************************************************************)
EXTENDS Naturals, Sequences, FiniteSets

VARIABLES input, pc, generated_tokens, anyhow_variant, idx, output, conv, last_output

vars == <<input, pc, generated_tokens, anyhow_variant, idx, output, conv, last_output>>

\* ------------------------------------------------------------------ bounds

\* Largest number of variants of an enumerated declaration.
MaxVariants == 3

\* -------------------------------------------------------------- token level

\* The tokens of the path `anyhow::Error`.
AnyhowTy == <<"anyhow", "::", "Error">>

\* `Error` after `use anyhow::Error;`: the same type, other tokens.
BareErrorTy == <<"Error">>

XTy == <<"X">>

YTy == <<"Y">>

\* TokenStream::to_string: the tokens separated by single spaces.
RECURSIVE to_string(_)
to_string(tokens) ==
    IF tokens = <<>> THEN ""
    ELSE IF Len(tokens) = 1 THEN tokens[1]
    ELSE tokens[1] \o " " \o to_string(Tail(tokens))

\* Punctuated<Field, Comma>::into_token_stream: each field's type tokens, with a
\* comma token between two fields.
RECURSIVE into_token_stream(_)
into_token_stream(unnamed) ==
    IF unnamed = <<>> THEN <<>>
    ELSE IF Len(unnamed) = 1 THEN unnamed[1]
    ELSE unnamed[1] \o <<",">> \o into_token_stream(Tail(unnamed))

\* ------------------------------------------------------------------ inputs

\* Variant idents by declaration position (the idents of an enum are distinct).
Names == <<"A", "B", "C", "D", "F">>

EnumName == "E"

NoAttrs == <<>>

WithoutAnyhowAttr == <<"without_anyhow">>

DocAttr == <<"doc", "=", "\"text\"">>

QualifiedAttr == <<"foo", "::", "without_anyhow">>

ArgsAttr == <<"without_anyhow", "(x)">>

UnitFields == [kind |-> "Unit", unnamed |-> <<>>]

NamedFields == [kind |-> "Named", unnamed |-> <<>>]

UnnamedFields(types) == [kind |-> "Unnamed", unnamed |-> types]

\* The variant shapes declarations are built from: fields and attributes.
Shapes ==
    { [fields |-> UnitFields,                    attrs |-> NoAttrs],
      [fields |-> NamedFields,                   attrs |-> NoAttrs],
      [fields |-> UnnamedFields(<<>>),           attrs |-> NoAttrs],
      [fields |-> UnnamedFields(<<AnyhowTy>>),   attrs |-> NoAttrs],
      [fields |-> UnnamedFields(<<XTy>>),        attrs |-> NoAttrs],
      [fields |-> UnnamedFields(<<BareErrorTy>>), attrs |-> NoAttrs],
      [fields |-> UnnamedFields(<<XTy, YTy>>),   attrs |-> NoAttrs],
      [fields |-> UnnamedFields(<<XTy>>),        attrs |-> <<WithoutAnyhowAttr>>],
      [fields |-> UnnamedFields(<<YTy>>),        attrs |-> <<DocAttr, WithoutAnyhowAttr>>],
      [fields |-> UnnamedFields(<<YTy>>),        attrs |-> <<DocAttr, QualifiedAttr, ArgsAttr>>] }

MkVariant(shape, i) ==
    [ident |-> Names[i], fields |-> shape.fields, attrs |-> shape.attrs]

EnumDecls ==
    UNION { { [ident |-> EnumName, data |-> "Enum",
               variants |-> [i \in 1..n |-> MkVariant(f[i], i)]] :
              f \in [1..n -> Shapes] } : n \in 0..MaxVariants }

NonEnumDecls ==
    { [ident |-> EnumName, data |-> d, variants |-> <<>>] : d \in {"Struct", "Union"} }

Decls == EnumDecls \cup NonEnumDecls

\* Payloads of opaque errors.
Payloads == {"e1", "e2"}

\* -------------------------------------------------------------- the macro

NoIdent == ""

NoOutput == [kind |-> "none", items |-> <<>>, msg |-> ""]

\* derive_error!: a compile_error! invocation and nothing else.
derive_error(string) == [kind |-> "compile_error", items |-> <<>>, msg |-> string]

\* Option<&FieldsUnnamed> as a sequence of length 0 or 1.
get_unnamed_field(variant) ==
    IF variant.fields.kind = "Unnamed" THEN <<variant.fields.unnamed>> ELSE <<>>

RECURSIVE find_map(_, _, _)
find_map(variants, i, with_type) ==
    IF i > Len(variants) THEN <<>>
    ELSE LET field == get_unnamed_field(variants[i])
         IN  IF field # <<>> /\ to_string(into_token_stream(field[1])) = with_type
             THEN <<variants[i].ident>>
             ELSE find_map(variants, i + 1, with_type)

\* Slip: the lookup takes the first variant with an unnamed field list and never
\* compares its type.
get_variant_with_type_any(variants, with_type) ==
    LET unnamed == SelectSeq(variants, LAMBDA v : get_unnamed_field(v) # <<>>)
    IN  IF unnamed = <<>> THEN <<>> ELSE <<unnamed[1].ident>>

\* Slip: the lookup keeps the last matching variant instead of the first.
get_variant_with_type_last(variants, with_type) ==
    LET matching == SelectSeq(variants,
                        LAMBDA v : /\ get_unnamed_field(v) # <<>>
                                   /\ to_string(into_token_stream(get_unnamed_field(v)[1])) = with_type)
    IN  IF matching = <<>> THEN <<>> ELSE <<matching[Len(matching)].ident>>

\* Option<&Ident> as a sequence of length 0 or 1.
get_variant_with_type(variants, with_type) == find_map(variants, 1, with_type)

\* Slip: only the first attribute of the variant is looked at.
find_without_anyhow_first(attrs) ==
    IF attrs # <<>> /\ to_string(attrs[1]) = "without_anyhow" THEN <<attrs[1]>> ELSE <<>>

\* attrs.iter().find(...): the matching attributes, in order.
find_without_anyhow(attrs) ==
    SelectSeq(attrs, LAMBDA attr : to_string(attr) = "without_anyhow")

\* Slip: the first arm names the processed variant where it should name the
\* catch-all, so nothing is flattened.
quote_match_own_variant(enum_name, inner, variant_name, anyhow) ==
    [from |-> inner, for |-> enum_name, form |-> "match",
     variant |-> variant_name, anyhow |-> variant_name]

\* The impl emitted for an unmarked variant: a match with two arms.
quote_match(enum_name, inner, variant_name, anyhow) ==
    [from |-> inner, for |-> enum_name, form |-> "match",
     variant |-> variant_name, anyhow |-> anyhow]

\* The impl emitted for a marked variant: Self::Variant(value).
quote_wrap(enum_name, inner, variant_name) ==
    [from |-> inner, for |-> enum_name, form |-> "wrap",
     variant |-> variant_name, anyhow |-> NoIdent]

\* The impl From<anyhow::Error> that ends the output.
quote_universal(enum_name, anyhow) ==
    [from |-> AnyhowTy, for |-> enum_name, form |-> "into",
     variant |-> anyhow, anyhow |-> NoIdent]

\* Slip: the two arms of the match on the attribute are exchanged.
generate_impl_swapped(enum_name, variant, anyhow) ==
    LET field == get_unnamed_field(variant)
    IN  IF field = <<>> THEN <<>>
        ELSE LET variant_inner_type == into_token_stream(field[1])
             IN  IF find_without_anyhow(variant.attrs) # <<>>
                 THEN <<quote_match(enum_name, variant_inner_type, variant.ident, anyhow)>>
                 ELSE <<quote_wrap(enum_name, variant_inner_type, variant.ident)>>

\* Option<TokenStream2> as a sequence of length 0 or 1.
generate_impl(enum_name, variant, anyhow) ==
    LET field == get_unnamed_field(variant)
    IN  IF field = <<>> THEN <<>>
        ELSE LET variant_inner_type == into_token_stream(field[1])
             IN  IF find_without_anyhow(variant.attrs) = <<>>
                 THEN <<quote_match(enum_name, variant_inner_type, variant.ident, anyhow)>>
                 ELSE <<quote_wrap(enum_name, variant_inner_type, variant.ident)>>

\* Slip: the Vec outlives the invocation and is never cleared.
NewVec_stale == generated_tokens

\* The Vec the impls are collected in.
NewVec == <<>>

\* Slip: the impl is inserted at the front of the Vec.
push_front(vec, token_stream) == token_stream \o vec

\* `if let Some(stream) = token_stream { generated_tokens.push(stream) }`.
push(vec, token_stream) == vec \o token_stream

\* ------------------------------------------------------------ the actions

Init ==
    /\ input \in Decls
    /\ pc = "validate"
    /\ generated_tokens = <<>>
    /\ anyhow_variant = NoIdent
    /\ idx = 0
    /\ output = NoOutput
    /\ conv = <<>>
    /\ last_output = <<>>

\* Lines 43-56: the declaration must be an enum; the Vec starts empty.
Validate ==
    /\ pc = "validate"
    /\ IF input.data = "Enum"
       THEN /\ generated_tokens' = NewVec
            /\ pc' = "find"
            /\ output' = NoOutput
       ELSE /\ output' = derive_error("ErrorEnum is only implemented for enums")
            /\ pc' = "done"
            /\ UNCHANGED generated_tokens
    /\ UNCHANGED <<input, anyhow_variant, idx, conv, last_output>>

\* Lines 58-62: the catch-all variant, or the second diagnostic.
FindAnyhow ==
    /\ pc = "find"
    /\ LET found == get_variant_with_type(input.variants, "anyhow :: Error")
       IN  IF found = <<>>
           THEN /\ output' = derive_error("Could not find a variant with anyhow::Error type in this enum")
                /\ pc' = "done"
                /\ UNCHANGED <<anyhow_variant, idx>>
           ELSE /\ anyhow_variant' = found[1]
                /\ idx' = 1
                /\ pc' = "loop"
                /\ UNCHANGED output
    /\ UNCHANGED <<input, generated_tokens, conv, last_output>>

\* Lines 65-74: one iteration of the loop over the variants.
LoopStep ==
    /\ pc = "loop"
    /\ idx <= Len(input.variants)
    /\ LET variant == input.variants[idx]
       IN  IF variant.ident = anyhow_variant
           THEN UNCHANGED generated_tokens
           ELSE generated_tokens' =
                    push(generated_tokens, generate_impl(input.ident, variant, anyhow_variant))
    /\ idx' = idx + 1
    /\ UNCHANGED <<input, pc, anyhow_variant, output, conv, last_output>>

\* Lines 76-83: the collected impls, then the impl From<anyhow::Error>.
Emit ==
    /\ pc = "loop"
    /\ idx > Len(input.variants)
    /\ output' = [kind |-> "tokens",
                  items |-> generated_tokens \o <<quote_universal(input.ident, anyhow_variant)>>,
                  msg |-> ""]
    /\ pc' = "done"
    /\ UNCHANGED <<input, generated_tokens, anyhow_variant, idx, conv, last_output>>

\* The values of an impl's source type: for the universal impl an opaque error,
\* otherwise a value of an enum with a variant named like the catch-all and another.
SourceValues(item) ==
    IF item.form = "into"
    THEN { [variant |-> "anyhow::Error", payload |-> p] : p \in Payloads }
    ELSE { [variant |-> v, payload |-> p] : v \in {anyhow_variant, "Other"}, p \in Payloads }

\* The body of an emitted `fn from(value)`.
from(item, value) ==
    IF item.form = "match"
    THEN IF value.variant = item.anyhow
         THEN [enum |-> item.for, variant |-> item.anyhow, inner |-> <<value.payload>>]
         ELSE [enum |-> item.for, variant |-> item.variant, inner |-> <<value>>]
    ELSE [enum |-> item.for, variant |-> item.variant, inner |-> <<value>>]

\* Calling code converts a value with one of the emitted impls.
Convert ==
    /\ pc = "done"
    /\ output.kind = "tokens"
    /\ \E i \in DOMAIN output.items :
         \E value \in SourceValues(output.items[i]) :
            conv' = <<[index |-> i, value |-> value, result |-> from(output.items[i], value)]>>
    /\ UNCHANGED <<input, pc, generated_tokens, anyhow_variant, idx, output, last_output>>

\* The macro is expanded again on the same declaration.
Reinvoke ==
    /\ pc = "done"
    /\ last_output' = <<output>>
    /\ pc' = "validate"
    /\ conv' = <<>>
    /\ UNCHANGED <<input, generated_tokens, anyhow_variant, idx, output>>

Next == Validate \/ FindAnyhow \/ LoopStep \/ Emit \/ Convert \/ Reinvoke

Spec == Init /\ [][Next]_vars

\* ------------------------------------------------- vocabulary of the claims

Variants == input.variants

Done == pc = "done"

Succeeded == pc = "done" /\ output.kind = "tokens"

Items == output.items

\* The field shape "exactly one unnamed field".
ExactlyOneUnnamed(v) == v.fields.kind = "Unnamed" /\ Len(v.fields.unnamed) = 1

\* An unnamed field list that is the one type `anyhow::Error`.
IsOpaqueShape(v) == v.fields.kind = "Unnamed" /\ v.fields.unnamed = <<AnyhowTy>>

OpaqueIndexes == { i \in DOMAIN Variants : IsOpaqueShape(Variants[i]) }

\* The catch-all: the first variant, in declaration order, of the opaque shape.
CatchAllIndex == CHOOSE i \in OpaqueIndexes : \A j \in OpaqueIndexes : i <= j

CatchAllIdent == Variants[CatchAllIndex].ident

Eligible(i) == ExactlyOneUnnamed(Variants[i]) /\ i # CatchAllIndex

\* The positions of the per-variant impls emitted for variant i.
ImplsOf(i) == { k \in DOMAIN Items : Items[k].form # "into" /\ Items[k].variant = Variants[i].ident }

\* The positions of the impls converting from a type into the enum.
ImplsFrom(type) == { k \in DOMAIN Items : Items[k].from = type /\ Items[k].for = input.ident }

Marked(v) == \E a \in DOMAIN v.attrs : v.attrs[a] = WithoutAnyhowAttr

\* ------------------------------------------------------------------ claims

\* C1: on success, every variant with exactly one unnamed field that is not the
\* catch-all has exactly one conversion in the output whose source type is its
\* inner type and whose target is the enum, whatever the other variants are.
C1_Coverage ==
    Succeeded =>
        \A i \in DOMAIN Variants :
            Eligible(i) => Cardinality(ImplsFrom(Variants[i].fields.unnamed[1])) = 1

\* C2: a variant whose field shape is not exactly-one-unnamed-field gets no
\* conversion and causes no diagnostic: an enum with a catch-all always succeeds,
\* no emitted impl wraps into such a variant, and the eligible variants and the
\* universal entry point are still emitted.
C2_NonCoverage ==
    (Done /\ input.data = "Enum" /\ OpaqueIndexes # {}) =>
        /\ output.kind = "tokens"
        /\ \A i \in DOMAIN Variants :
               ~ExactlyOneUnnamed(Variants[i]) =>
                   \A k \in DOMAIN Items : Items[k].variant # Variants[i].ident
        /\ \A i \in DOMAIN Variants : Eligible(i) => ImplsOf(i) # {}
        /\ Items[Len(Items)].form = "into"

\* C3: on success the output holds exactly one conversion from anyhow::Error to
\* the enum, and it wraps the value into the catch-all variant.
C3_UniversalEntryPoint ==
    Succeeded =>
        /\ Cardinality(ImplsFrom(AnyhowTy)) = 1
        /\ \A k \in ImplsFrom(AnyhowTy) :
               Items[k].form = "into" /\ Items[k].variant = CatchAllIdent

\* C4: an eligible variant that carries the without_anyhow marker gets the
\* direct-wrap impl, which maps every value to the variant wrapping that value;
\* an eligible variant without the marker gets the match form with the catch-all
\* arm and the fallback arm.  Nothing else decides the form.
C4_MarkerSemantics ==
    Succeeded =>
        \A i \in DOMAIN Variants :
            Eligible(i) =>
                \A k \in ImplsOf(i) :
                    IF Marked(Variants[i])
                    THEN /\ Items[k].form = "wrap"
                         /\ \A value \in SourceValues(Items[k]) :
                                from(Items[k], value) =
                                    [enum |-> input.ident, variant |-> Variants[i].ident,
                                     inner |-> <<value>>]
                    ELSE /\ Items[k].form = "match"
                         /\ Items[k].anyhow = CatchAllIdent
                         /\ Items[k].variant = Variants[i].ident

C4_Witness ==
    /\ Succeeded
    /\ \E i, j \in DOMAIN Variants :
          /\ Eligible(i) /\ Marked(Variants[i]) /\ ImplsOf(i) # {}
          /\ Eligible(j) /\ ~Marked(Variants[j]) /\ ImplsOf(j) # {}

\* C5: a declaration that is not an enum yields only the structural-mismatch
\* diagnostic, an enum without a variant of the opaque shape yields only the
\* missing-catch-all diagnostic, neither emits an impl, and the catch-all lookup
\* is reached by enums only.
C5_FatalPreconditions ==
    /\ (pc \in {"find", "loop"}) => input.data = "Enum"
    /\ (Done /\ input.data # "Enum") =>
           output = [kind |-> "compile_error", items |-> <<>>,
                     msg |-> "ErrorEnum is only implemented for enums"]
    /\ (Done /\ input.data = "Enum" /\ OpaqueIndexes = {}) =>
           output = [kind |-> "compile_error", items |-> <<>>,
                     msg |-> "Could not find a variant with anyhow::Error type in this enum"]

\* An enum whose variants wrap `Error` and X, but never `anyhow::Error`, ended
\* with a diagnostic.
C5_Witness ==
    /\ Done
    /\ input.data = "Enum"
    /\ output.kind = "compile_error"
    /\ \E i, j \in DOMAIN Variants :
          /\ Variants[i].fields.unnamed = <<BareErrorTy>>
          /\ Variants[j].fields.unnamed = <<XTy>>

\* C6: the impl emitted for an unmarked eligible variant A maps a value that is
\* the inner type's catch-all variant to the enum's catch-all with the same
\* payload, and any other value x to A(x).
C6_Flattening ==
    (Succeeded /\ conv # <<>>) =>
        LET c == conv[1]
        IN  \A i \in DOMAIN Variants :
                (Eligible(i) /\ ~Marked(Variants[i]) /\ c.index \in ImplsOf(i)) =>
                    IF c.value.variant = CatchAllIdent
                    THEN c.result = [enum |-> input.ident, variant |-> CatchAllIdent,
                                     inner |-> <<c.value.payload>>]
                    ELSE c.result = [enum |-> input.ident, variant |-> Variants[i].ident,
                                     inner |-> <<c.value>>]

C6_Witness ==
    /\ Succeeded
    /\ conv # <<>>
    /\ \E i \in DOMAIN Variants :
          /\ Eligible(i) /\ ~Marked(Variants[i]) /\ conv[1].index \in ImplsOf(i)
          /\ conv[1].value.variant = CatchAllIdent
          /\ conv[1].result.variant = CatchAllIdent
          /\ conv[1].result.inner = <<"e2">>

\* C7: an invocation on a declaration ends with the output the previous
\* invocation on that declaration ended with.
C7_Determinism ==
    (Done /\ last_output # <<>>) => output = last_output[1]

C7_Witness ==
    /\ Done
    /\ last_output # <<>>
    /\ output.kind = "tokens"
    /\ Len(Items) >= 3

\* C8: the catch-all is the first variant in declaration order with an unnamed
\* field list that is `anyhow::Error`; the universal entry point targets it, no
\* per-variant impl is generated for it, every other variant with an unnamed
\* field list has one, and no variant declared before it matches.
C8_CatchAllDiscovery ==
    /\ (pc = "loop" \/ Succeeded) =>
           /\ OpaqueIndexes # {}
           /\ anyhow_variant = CatchAllIdent
           /\ \A j \in 1..(CatchAllIndex - 1) : ~IsOpaqueShape(Variants[j])
    /\ Succeeded =>
           /\ Items[Len(Items)].form = "into"
           /\ Items[Len(Items)].variant = CatchAllIdent
           /\ ImplsOf(CatchAllIndex) = {}
           /\ \A i \in DOMAIN Variants :
                  (i # CatchAllIndex /\ Variants[i].fields.kind = "Unnamed") =>
                      ImplsOf(i) # {}

\* The catch-all is the second of three variants and the third matches too.
C8_Witness ==
    /\ Succeeded
    /\ Len(Variants) = 3
    /\ CatchAllIndex = 2
    /\ IsOpaqueShape(Variants[3])
    /\ Variants[1].fields.kind = "Unnamed"

\* C9: on success the output is the per-variant impls in the declaration order
\* of their variants, then the universal entry point; there is one impl per
\* variant other than the catch-all that generate_impl accepts, plus one.
C9_EmissionOrder ==
    Succeeded =>
        LET accepted == SelectSeq(Variants,
                            LAMBDA v : v.fields.kind = "Unnamed" /\ v.ident # CatchAllIdent)
        IN  /\ Len(Items) = Len(accepted) + 1
            /\ \A k \in 1..Len(accepted) :
                   Items[k].form # "into" /\ Items[k].variant = accepted[k].ident
            /\ Items[Len(Items)].form = "into"

\* The catch-all is declared first and emitted last, after two other impls.
C9_Witness ==
    /\ Succeeded
    /\ CatchAllIndex = 1
    /\ Len(Items) = 3
    /\ Items[1].variant = Names[2]
    /\ Items[2].variant = Names[3]

\* C10: a variant processed by generate_impl (unnamed fields, not the catch-all)
\* is emitted as direct-wrap exactly when one of its
\* attributes renders as the text `without_anyhow`; a path-qualified name, a
\* name with arguments and a different name do not count, and an attribute in
\* front of the marker does not hide it.
C10_MarkerDetection ==
    Succeeded =>
        \A i \in DOMAIN Variants :
            (i # CatchAllIndex /\ Variants[i].fields.kind = "Unnamed") =>
                /\ ImplsOf(i) # {}
                /\ \A k \in ImplsOf(i) :
                       /\ Items[k].form = "wrap" <=>
                              \E a \in DOMAIN Variants[i].attrs :
                                  to_string(Variants[i].attrs[a]) = "without_anyhow"
                       /\ Variants[i].attrs = <<DocAttr, QualifiedAttr, ArgsAttr>> =>
                              Items[k].form = "match"
                       /\ Variants[i].attrs = <<DocAttr, WithoutAnyhowAttr>> =>
                              Items[k].form = "wrap"

C10_Witness ==
    /\ Succeeded
    /\ \E i, j \in DOMAIN Variants :
          /\ Variants[i].attrs = <<DocAttr, WithoutAnyhowAttr>>
          /\ \E k \in ImplsOf(i) : Items[k].form = "wrap"
          /\ Variants[j].attrs = <<DocAttr, QualifiedAttr, ArgsAttr>>
          /\ \E k \in ImplsOf(j) : Items[k].form = "match"

====
